---- MODULE Spec2Model ----
(***************************************************************************)
(* Model of the generic concurrent runner, server/concurrent/runner.go:    *)
(* Runner.Run and Runner.RunWithCallbacks.                                 *)
(*                                                                         *)
(* One behaviour is one call of Run or RunWithCallbacks on a Runner built  *)
(* by NewRunner.  The processes are the calling goroutine ("main"), one    *)
(* goroutine per dispatched item, and the three collector goroutines that  *)
(* range over the unbuffered channels messages, results and errors.        *)
(* A send on an unbuffered channel completes together with the receive of  *)
(* the collector (rendezvous), so send+receive is one step.                *)
(*                                                                         *)
(* The second part models server/parser/cfr_parser.go (CfrParser.Parse and *)
(* its helpers) and the linkage pass and insert of                         *)
(* CfrStructureService.processTitle.  Strings are sequences of one-letter  *)
(* strings.  One behaviour of ParseSpec writes a document token by token   *)
(* and then processes it.                                                  *)
(***************************************************************************)
EXTENDS Integers, Sequences, FiniteSets

\* ---------------------------------------------------------------- bounds
MaxItems == 2          \* len(items) ranges over 0..MaxItems
MaxConc == 1           \* config.MaxConcurrency ranges over -1..MaxConc
MaxMsgs == 1           \* messages sent in one run at most, over all workers
MaxTokens == 7         \* tokens of a complete document at most

Streams == {"messages", "results", "errors"}
Callbacks == {"onMessage", "onResult", "onError"}
Variants == {"Run", "RunWithCallbacks"}

VARIABLES
    variant,        \* which method was called
    callbacks,      \* the non-nil callbacks passed to RunWithCallbacks
    maxConcurrency, \* r.config.MaxConcurrency
    items,          \* len(items); the items are 1..items
    pc,             \* position of the calling goroutine
    next,           \* index of the next item of the dispatch loop
    throttle,       \* number of values buffered in the throttle channel
    workersWg,      \* counter of workersWg
    messagesWG,     \* counter of messagesWG
    closed,         \* the three channels have been closed
    wpc,            \* position of each worker goroutine
    invoked,        \* per item: calls of worker(item, ...) made so far
    cst,            \* per stream: position of its collector goroutine
    cval,           \* per stream: the value its collector holds (0: none)
    sentMessages,   \* per item: message sends completed
    sentResults,    \* per item: result sends completed
    sentErrors,     \* per item: error sends completed
    logged,         \* per item: r.logInfo calls made for its messages
    resultsList,    \* resultsList of Run
    errorsList,     \* errorsList of Run
    onMessageCalls, \* per item: onMessage calls made for its messages
    onResultCalls,  \* the arguments of the onResult calls, in order
    onErrorCalls,   \* the arguments of the onError calls, in order
    runResult       \* the RunResult returned by Run

VARIABLES
    doc,            \* the tokens xml.Decoder yields for xmlContent, in order
    open,           \* positions in doc of the start tokens not yet closed
    ppc,            \* "off", "write" (document being written), "processed"
    parseResult,    \* what Parse returned: ok, Structures, TotalWords
    linked,         \* parseResult.Structures after the linkage pass
    rows            \* the rows BatchInsert was given to insert, in order

parserVars == <<doc, open, ppc, parseResult, linked, rows>>

VARIABLES
    second,         \* a second Parse call on the same xmlContent: its return
    driver,         \* the batch function that was called ("none": none)
    driverRet,      \* what the batch function returned ("none": not yet)
    todo,           \* per item: the statements its worker has still to run
    failed,         \* per item: a call made for it returned an error
    store,          \* cfr_structure: per writer, copies of its list stored
    spc             \* per processTitle invocation: its position

batchVars == <<driver, driverRet, todo, failed>>
storeVars == <<store, spc>>

vars == <<variant, callbacks, maxConcurrency, items, pc, next, throttle,
          workersWg, messagesWG, closed, wpc, invoked, cst, cval,
          sentMessages, sentResults, sentErrors, logged, resultsList,
          errorsList, onMessageCalls, onResultCalls, onErrorCalls, runResult,
          doc, open, ppc, parseResult, linked, rows,
          second, driver, driverRet, todo, failed, store, spc>>

\* Parse has not returned anything yet.
NoResult == [ok |-> FALSE, Structures |-> <<>>, TotalWords |-> 0]

\* No document is being processed (the runner's behaviours).
ParserOff ==
    /\ doc = <<>>
    /\ open = <<>>
    /\ ppc = "off"
    /\ parseResult = NoResult
    /\ linked = <<>>
    /\ rows = <<>>

Slots == 1..MaxItems
Zero == [i \in Slots |-> 0]

\* Parse has not been called a second time.
NotCalled == [called |-> FALSE, result |-> NoResult]

\* No batch function is running (the runner is called directly).
BatchOff ==
    /\ driver = "none"
    /\ driverRet = "none"
    /\ todo = [i \in Slots |-> <<>>]
    /\ failed = [i \in Slots |-> FALSE]

\* The two processTitle invocations on one title.
Invocations == {1, 2}

\* No processTitle invocation is running against the store.
StoreOff ==
    /\ store = [w \in {0} \cup Invocations |-> 0]
    /\ spc = [p \in Invocations |-> "off"]

\* NewRunner keeps config.MaxConcurrency as given: no value is refused.
NewRunner(c) == c

\* The callback sets a caller passes: all three, or none (all nil).
CallbackChoices == {Callbacks, {}}

Init ==
    /\ variant \in Variants
    /\ callbacks \in (IF variant = "Run" THEN {{}} ELSE CallbackChoices)
    /\ maxConcurrency \in {NewRunner(c) : c \in -1..MaxConc}
    /\ items \in 0..MaxItems
    /\ pc = "entry"
    /\ next = 1
    /\ throttle = 0
    /\ workersWg = 0
    /\ messagesWG = 0
    /\ closed = FALSE
    /\ wpc = [i \in Slots |-> "idle"]
    /\ invoked = Zero
    /\ cst = [s \in Streams |-> "off"]
    /\ cval = [s \in Streams |-> 0]
    /\ sentMessages = Zero
    /\ sentResults = Zero
    /\ sentErrors = Zero
    /\ logged = Zero
    /\ resultsList = <<>>
    /\ errorsList = <<>>
    /\ onMessageCalls = Zero
    /\ onResultCalls = <<>>
    /\ onErrorCalls = <<>>
    /\ runResult = [Results |-> <<>>, Errors |-> <<>>]
    /\ ParserOff
    /\ second = NotCalled
    /\ BatchOff
    /\ StoreOff

\* ------------------------------------------------------- calling goroutine

\* Mutant: the empty-input check is missing.
EmptyInputUnchecked == FALSE

\* if len(items) == 0
EmptyInput == items = 0

\* Mutant: the throttle channel is made for MaxConcurrency >= 0, so that 0
\* gives a channel without buffer.
ThrottleConfiguredFromZero == maxConcurrency >= 0

\* if r.config.MaxConcurrency > 0 { throttle = make(chan int, MaxConcurrency) }
ThrottleConfigured == maxConcurrency > 0

\* Mutant: the dispatch loop does not wait for a throttle slot.
CanAcquireAlways == TRUE

\* throttle <- 1 can proceed: the channel is nil (skipped) or has room.
CanAcquire == ThrottleConfigured => throttle < maxConcurrency

\* Mutant: the goroutine reads a loop variable shared by all iterations and
\* finds the last item in it.
DispatchedShared(i) == items

\* The item the goroutine of loop iteration i is given: go func(item T){..}(item)
Dispatched(i) == i

\* Mutant: the channels are closed without waiting for the workers.
WorkersNotAwaited == TRUE

\* workersWg.Wait() returns
WorkersJoined == workersWg = 0

\* Mutant: Run returns without waiting for the collectors.
CollectorsNotAwaited == TRUE

\* messagesWG.Wait() returns
CollectorsJoined == messagesWG = 0

mainVars == <<pc, next, throttle, workersWg, messagesWG, closed, runResult>>
workerVars == <<wpc, invoked, sentMessages, sentResults, sentErrors>>
sinkVars == <<logged, resultsList, errorsList, onMessageCalls, onResultCalls,
              onErrorCalls>>
configVars == <<variant, callbacks, maxConcurrency, items, parserVars, second,
                batchVars, storeVars>>

\* Empty input: Run returns the empty RunResult, RunWithCallbacks returns.
ReturnEmpty ==
    /\ pc = "entry"
    /\ EmptyInput
    /\ pc' = "done"
    /\ runResult' = [Results |-> <<>>, Errors |-> <<>>]
    /\ UNCHANGED <<configVars, next, throttle, workersWg, messagesWG, closed,
                   workerVars, cst, cval, sinkVars>>

\* Non-empty input: make the channels and start the three collectors.
StartCollectors ==
    /\ pc = "entry"
    /\ ~EmptyInput
    /\ messagesWG' = messagesWG + 3
    /\ cst' = [s \in Streams |-> "recv"]
    /\ pc' = "loop"
    /\ UNCHANGED <<configVars, next, throttle, workersWg, closed, runResult,
                   workerVars, cval, sinkVars>>

\* One iteration of the dispatch loop: workersWg.Add(1), acquire a throttle
\* slot if configured (blocking while the channel is full), start the goroutine.
Dispatch ==
    /\ pc = "loop"
    /\ next <= items
    /\ CanAcquire
    /\ workersWg' = workersWg + 1
    /\ throttle' = IF ThrottleConfigured THEN throttle + 1 ELSE throttle
    /\ wpc' = [wpc EXCEPT ![next] = "ready"]
    /\ next' = next + 1
    /\ UNCHANGED <<configVars, pc, messagesWG, closed, runResult, invoked,
                   sentMessages, sentResults, sentErrors, cst, cval, sinkVars>>

\* workersWg.Wait() after the loop.
WaitWorkers ==
    /\ pc = "loop"
    /\ next > items
    /\ WorkersJoined
    /\ pc' = "close"
    /\ UNCHANGED <<configVars, next, throttle, workersWg, messagesWG, closed,
                   runResult, workerVars, cst, cval, sinkVars>>

\* close(messages); close(results); close(errors)
CloseChannels ==
    /\ pc = "close"
    /\ closed' = TRUE
    /\ pc' = "join"
    /\ UNCHANGED <<configVars, next, throttle, workersWg, messagesWG, runResult,
                   workerVars, cst, cval, sinkVars>>

\* messagesWG.Wait(), then return (Run: the two lists as they are now).
Return ==
    /\ pc = "join"
    /\ CollectorsJoined
    /\ pc' = "done"
    /\ runResult' = IF variant = "Run"
                    THEN [Results |-> resultsList, Errors |-> errorsList]
                    ELSE runResult
    /\ UNCHANGED <<configVars, next, throttle, workersWg, messagesWG, closed,
                   workerVars, cst, cval, sinkVars>>

\* ------------------------------------------------------- worker goroutines

\* The goroutine registers its defers and calls worker(item, ...).
CallWorker(i) ==
    /\ wpc[i] = "ready"
    /\ wpc' = [wpc EXCEPT ![i] = "run"]
    /\ invoked' = [invoked EXCEPT ![Dispatched(i)] = @ + 1]
    /\ UNCHANGED <<configVars, mainVars, sentMessages, sentResults, sentErrors,
                   cst, cval, sinkVars>>

RECURSIVE SumTo(_, _)
SumTo(f, k) == IF k = 0 THEN 0 ELSE f[k] + SumTo(f, k - 1)
Total(f) == SumTo(f, MaxItems)

\* What a worker invocation may still send.  The workers of this repository
\* send any number of messages and at most one outcome (a result or an error);
\* a worker that returns without an outcome breaks the WorkerFunc contract
\* and is kept as a possible behaviour.  Messages are capped by MaxMsgs.
MaySend(i, s) ==
    IF s = "messages"
    THEN Total(sentMessages) + Cardinality({j \in Slots : wpc[j] = "messages"}) < MaxMsgs
    ELSE sentResults[Dispatched(i)] + sentErrors[Dispatched(i)] = 0

\* The worker reaches a send statement on stream s and blocks in it.
WorkerBeginSend(i, s) ==
    /\ wpc[i] = "run"
    /\ MaySend(i, s)
    /\ wpc' = [wpc EXCEPT ![i] = s]
    /\ UNCHANGED <<configVars, mainVars, invoked, sentMessages, sentResults,
                   sentErrors, cst, cval, sinkVars>>

\* Mutant: the channel of stream s takes a value while its collector is
\* still handling the previous one.
CollectorReadyAlways(s) == TRUE

\* The channels are unbuffered: a send completes only when the collector of
\* stream s is waiting in its range loop.
CollectorReady(s) == cst[s] = "recv"

\* The send completes: the collector of stream s receives the value.
WorkerSend(i, s) ==
    /\ wpc[i] = s
    /\ CollectorReady(s)
    /\ ~closed
    /\ wpc' = [wpc EXCEPT ![i] = "run"]
    /\ cst' = [cst EXCEPT ![s] = "proc"]
    /\ cval' = [cval EXCEPT ![s] = Dispatched(i)]
    /\ sentMessages' = IF s = "messages"
                       THEN [sentMessages EXCEPT ![Dispatched(i)] = @ + 1]
                       ELSE sentMessages
    /\ sentResults' = IF s = "results"
                      THEN [sentResults EXCEPT ![Dispatched(i)] = @ + 1]
                      ELSE sentResults
    /\ sentErrors' = IF s = "errors"
                     THEN [sentErrors EXCEPT ![Dispatched(i)] = @ + 1]
                     ELSE sentErrors
    /\ UNCHANGED <<configVars, mainVars, invoked, sinkVars>>

\* worker(item, ...) returns.
WorkerReturn(i) ==
    /\ wpc[i] = "run"
    /\ wpc' = [wpc EXCEPT ![i] = "returned"]
    /\ UNCHANGED <<configVars, mainVars, invoked, sentMessages, sentResults,
                   sentErrors, cst, cval, sinkVars>>

\* Mutant: the deferred release of the throttle slot is missing.
ReleaseThrottleMissing(i) ==
    /\ wpc[i] = "returned"
    /\ wpc' = [wpc EXCEPT ![i] = "released"]
    /\ UNCHANGED <<configVars, mainVars, invoked, sentMessages, sentResults,
                   sentErrors, cst, cval, sinkVars>>

\* Mutant: the deferred function receives from the throttle channel twice.
ReleaseThrottleTwice(i) ==
    /\ wpc[i] = "returned"
    /\ wpc' = [wpc EXCEPT ![i] = "released"]
    /\ throttle' = IF ThrottleConfigured THEN throttle - 2 ELSE throttle
    /\ UNCHANGED <<configVars, pc, next, workersWg, messagesWG, closed,
                   runResult, invoked, sentMessages, sentResults, sentErrors,
                   cst, cval, sinkVars>>

\* First deferred call: defer func() { <-throttle }() if configured.
ReleaseThrottle(i) ==
    /\ wpc[i] = "returned"
    /\ wpc' = [wpc EXCEPT ![i] = "released"]
    /\ throttle' = IF ThrottleConfigured THEN throttle - 1 ELSE throttle
    /\ UNCHANGED <<configVars, pc, next, workersWg, messagesWG, closed,
                   runResult, invoked, sentMessages, sentResults, sentErrors,
                   cst, cval, sinkVars>>

\* Second deferred call: workersWg.Done().
WorkerDone(i) ==
    /\ wpc[i] = "released"
    /\ wpc' = [wpc EXCEPT ![i] = "fin"]
    /\ workersWg' = workersWg - 1
    /\ UNCHANGED <<configVars, pc, next, throttle, messagesWG, closed,
                   runResult, invoked, sentMessages, sentResults, sentErrors,
                   cst, cval, sinkVars>>

\* ---------------------------------------------------- collector goroutines

\* RunWithCallbacks: if onMessage != nil { onMessage(message) }
CallOnMessage ==
    IF variant = "RunWithCallbacks" /\ "onMessage" \in callbacks
    THEN [onMessageCalls EXCEPT ![cval["messages"]] = @ + 1]
    ELSE onMessageCalls

\* RunWithCallbacks: if onResult != nil { onResult(result) }
CallOnResult ==
    IF variant = "RunWithCallbacks" /\ "onResult" \in callbacks
    THEN Append(onResultCalls, cval["results"])
    ELSE onResultCalls

\* Mutant: the errors collector of RunWithCallbacks drops the value.
CallOnErrorDropped == onErrorCalls

\* RunWithCallbacks: if onError != nil { onError(err) }
CallOnError ==
    IF variant = "RunWithCallbacks" /\ "onError" \in callbacks
    THEN Append(onErrorCalls, cval["errors"])
    ELSE onErrorCalls

\* Run: resultsList = append(resultsList, result)
AppendResult ==
    IF variant = "Run" THEN Append(resultsList, cval["results"]) ELSE resultsList

\* Run: errorsList = append(errorsList, err)
AppendError ==
    IF variant = "Run" THEN Append(errorsList, cval["errors"]) ELSE errorsList

\* Body of "for message := range messages": onMessage if non-nil, r.logInfo.
CollectMessage ==
    /\ cst["messages"] = "proc"
    /\ cst' = [cst EXCEPT !["messages"] = "recv"]
    /\ cval' = [cval EXCEPT !["messages"] = 0]
    /\ logged' = [logged EXCEPT ![cval["messages"]] = @ + 1]
    /\ onMessageCalls' = CallOnMessage
    /\ UNCHANGED <<configVars, mainVars, workerVars, resultsList,
                   errorsList, onResultCalls, onErrorCalls>>

\* Body of "for result := range results": append (Run) or onResult if non-nil.
CollectResult ==
    /\ cst["results"] = "proc"
    /\ cst' = [cst EXCEPT !["results"] = "recv"]
    /\ cval' = [cval EXCEPT !["results"] = 0]
    /\ resultsList' = AppendResult
    /\ onResultCalls' = CallOnResult
    /\ UNCHANGED <<configVars, mainVars, workerVars, logged, errorsList,
                   onMessageCalls, onErrorCalls>>

\* Mutant: the errors collector of Run appends to resultsList.
CollectErrorIntoResults ==
    /\ cst["errors"] = "proc"
    /\ cst' = [cst EXCEPT !["errors"] = "recv"]
    /\ cval' = [cval EXCEPT !["errors"] = 0]
    /\ resultsList' = IF variant = "Run"
                      THEN Append(resultsList, cval["errors"])
                      ELSE resultsList
    /\ onErrorCalls' = CallOnError
    /\ UNCHANGED <<configVars, mainVars, workerVars, logged, errorsList,
                   onMessageCalls, onResultCalls>>

\* Body of "for err := range errors": append (Run) or onError if non-nil.
CollectError ==
    /\ cst["errors"] = "proc"
    /\ cst' = [cst EXCEPT !["errors"] = "recv"]
    /\ cval' = [cval EXCEPT !["errors"] = 0]
    /\ errorsList' = AppendError
    /\ onErrorCalls' = CallOnError
    /\ UNCHANGED <<configVars, mainVars, workerVars, logged, resultsList,
                   onMessageCalls, onResultCalls>>

\* The range loop of stream s ends on the closed channel: messagesWG.Done().
CollectorExit(s) ==
    /\ cst[s] = "recv"
    /\ closed
    /\ cst' = [cst EXCEPT ![s] = "exit"]
    /\ messagesWG' = messagesWG - 1
    /\ UNCHANGED <<configVars, pc, next, throttle, workersWg, closed, runResult,
                   workerVars, cval, sinkVars>>

\* ------------------------------------------------------------ specification

Next ==
    \/ ReturnEmpty
    \/ StartCollectors
    \/ Dispatch
    \/ WaitWorkers
    \/ CloseChannels
    \/ Return
    \/ \E i \in Slots : CallWorker(i)
    \/ \E i \in Slots, s \in Streams : WorkerBeginSend(i, s)
    \/ \E i \in Slots, s \in Streams : WorkerSend(i, s)
    \/ \E i \in Slots : WorkerReturn(i)
    \/ \E i \in Slots : ReleaseThrottle(i)
    \/ \E i \in Slots : WorkerDone(i)
    \/ CollectMessage
    \/ CollectResult
    \/ CollectError
    \/ \E s \in Streams : CollectorExit(s)

Spec == Init /\ [][Next]_vars

\* A call of Run with a configuration the RunnerConfig comment allows.
InitRun == Init /\ variant = "Run" /\ maxConcurrency >= 0

\* The Go scheduler never leaves every runnable goroutine waiting: while some
\* step of the run is possible, one is taken.
FairSpec == InitRun /\ [][Next]_vars /\ WF_vars(Next)

\* ------------------------------------------------------------------ claims

\* Occurrences of v in the sequence q.
CountIn(q, v) == Cardinality({k \in DOMAIN q : q[k] = v})

\* The worker invocations that have started and not yet returned.
Active == {i \in Slots : wpc[i] \in {"run"} \cup Streams}

Returned == pc = "done"

\* Every worker of the run sent exactly one outcome.
OneOutcomeEach == \A i \in 1..items : sentResults[i] + sentErrors[i] = 1

\* C1: with maxConcurrency = C > 0, at most C worker invocations have started
\* and not yet returned, in every state of a run.
C1_ConcurrencyBound ==
    maxConcurrency > 0 => Cardinality(Active) <= maxConcurrency

\* C1 witness: C invocations are executing while a further item waits for a slot.
C1_Witness ==
    /\ maxConcurrency > 0
    /\ Cardinality(Active) = maxConcurrency
    /\ pc = "loop" /\ next <= items
    /\ ~CanAcquire

\* C2: when Run returns for N > 0 items whose workers each sent exactly one
\* outcome, len(Results) + len(Errors) = N.
C2_Completeness ==
    (variant = "Run" /\ Returned /\ items > 0 /\ OneOutcomeEach)
        => Len(runResult.Results) + Len(runResult.Errors) = items

\* C2 witness: Run has returned for MaxItems items, a result and an error among them.
C2_Witness ==
    /\ variant = "Run" /\ Returned /\ items = MaxItems /\ OneOutcomeEach
    /\ Len(runResult.Results) > 0 /\ Len(runResult.Errors) > 0

\* C3: when Run returns, every dispatched worker goroutine has finished, no
\* collector holds or awaits a value, and every message, result and error
\* sent has been handled by its collector and is in the returned lists.
C3_ReturnAfterDrain ==
    (Returned /\ items > 0) =>
        /\ \A i \in 1..items : wpc[i] = "fin"
        /\ \A s \in Streams : cst[s] = "exit" /\ cval[s] = 0
        /\ \A i \in Slots : logged[i] = sentMessages[i]
        /\ variant = "Run" =>
              \A i \in Slots : /\ CountIn(runResult.Results, i) = sentResults[i]
                                /\ CountIn(runResult.Errors, i) = sentErrors[i]

\* C3 witness: Run has returned after a message, a result and an error were sent.
C3_Witness ==
    /\ variant = "Run" /\ Returned
    /\ \E i, j, k \in 1..items :
          sentMessages[i] > 0 /\ sentResults[j] > 0 /\ sentErrors[k] > 0

\* C4: under fair scheduling, and with every worker invocation terminating,
\* Run eventually returns, for every item count and every maxConcurrency >= 0.
C4_RunEventuallyReturns == <>(pc = "done")

\* C4 witness: Run has returned from a run in which the dispatch loop had to
\* wait for a throttle slot (more items than slots) and all streams were used.
C4_Witness ==
    /\ Returned /\ maxConcurrency > 0 /\ items > maxConcurrency
    /\ \E i, j, k \in 1..items :
          sentMessages[i] > 0 /\ sentResults[j] > 0 /\ sentErrors[k] > 0

\* C5: the worker function is called at most once per item at any time and
\* exactly once per item by the time of the return, whatever the workers send:
\* an error sent by one worker stops no other item's invocation.
C5_OncePerItem ==
    /\ \A i \in Slots : invoked[i] <= (IF i <= items THEN 1 ELSE 0)
    /\ (Returned /\ items > 0) =>
          \A i \in 1..items : invoked[i] = 1 /\ wpc[i] = "fin"

\* C5 witness: the first item's worker sent an error before any later item was
\* invoked, and the run has returned with a later item's result.
C5_Witness ==
    /\ Returned /\ items > 1
    /\ sentErrors[1] = 1
    /\ \E j \in 2..items : sentResults[j] = 1 /\ invoked[j] = 1

\* C6: in Run, at every point the collected results (errors) are a
\* sub-multiset of the results (errors) sent so far, and in the returned
\* RunResult they are equal to them as multisets.
C6_NoLossNoDuplicate ==
    variant = "Run" =>
        /\ \A i \in Slots : /\ CountIn(resultsList, i) <= sentResults[i]
                             /\ CountIn(errorsList, i) <= sentErrors[i]
        /\ Len(resultsList) = Total([i \in Slots |-> CountIn(resultsList, i)])
        /\ Len(errorsList) = Total([i \in Slots |-> CountIn(errorsList, i)])
        /\ (Returned /\ items > 0) =>
              /\ runResult.Results = resultsList
              /\ runResult.Errors = errorsList
              /\ \A i \in Slots : /\ CountIn(runResult.Results, i) = sentResults[i]
                                   /\ CountIn(runResult.Errors, i) = sentErrors[i]

\* C6 witness: item 1 failed, item 2 succeeded: Results = <<2>>, Errors = <<1>>.
C6_Witness ==
    /\ variant = "Run" /\ Returned /\ items = 2
    /\ sentErrors[1] = 1 /\ sentResults[2] = 1
    /\ runResult = [Results |-> <<2>>, Errors |-> <<1>>]

\* C7: on an empty item collection no worker goroutine and no collector is
\* started, the worker function and the callbacks are never called, and Run
\* returns empty Results and Errors.
C7_EmptyInput ==
    items = 0 =>
        /\ \A i \in Slots : wpc[i] = "idle" /\ invoked[i] = 0
        /\ \A s \in Streams : cst[s] = "off"
        /\ messagesWG = 0 /\ workersWg = 0
        /\ onMessageCalls = Zero /\ onResultCalls = <<>> /\ onErrorCalls = <<>>
        /\ logged = Zero
        /\ Returned => runResult = [Results |-> <<>>, Errors |-> <<>>]

\* C7 witness: RunWithCallbacks with all callbacks has returned on no items.
C7_Witness ==
    items = 0 /\ Returned /\ variant = "RunWithCallbacks" /\ callbacks = Callbacks

\* C8 (as claimed): with MaxConcurrency < 0 no worker is started for any item.
C8_NegativeRejected ==
    maxConcurrency < 0 => \A i \in Slots : wpc[i] = "idle"

\* C9: with maxConcurrency = 0 the dispatch loop is never blocked: whenever an
\* item is left to dispatch, the dispatch step is possible, and no throttle
\* slot is ever taken.
C9_UnlimitedNeverBlocks ==
    maxConcurrency = 0 =>
        /\ throttle = 0
        /\ (pc = "loop" /\ next <= items) => ENABLED Dispatch

\* C9 witness: with maxConcurrency = 0 all MaxItems workers execute at once.
C9_Witness ==
    /\ maxConcurrency = 0 /\ items = MaxItems
    /\ \A i \in 1..items : i \in Active

\* C10: RunWithCallbacks with all three callbacks: each callback has been
\* called at most once per value sent on its stream at any time, exactly once
\* per value sent when RunWithCallbacks returns (so the arguments of onResult
\* and onError are an ordering of the results and errors sent, as the lists of
\* Run are), and the bound on executing workers is that of Run.
C10_CallbacksAsRun ==
    (variant = "RunWithCallbacks" /\ callbacks = Callbacks) =>
        /\ \A i \in Slots : /\ CountIn(onResultCalls, i) <= sentResults[i]
                             /\ CountIn(onErrorCalls, i) <= sentErrors[i]
                             /\ onMessageCalls[i] <= sentMessages[i]
        /\ Len(onResultCalls) = Total([i \in Slots |-> CountIn(onResultCalls, i)])
        /\ Len(onErrorCalls) = Total([i \in Slots |-> CountIn(onErrorCalls, i)])
        /\ Returned =>
              \A i \in Slots : /\ CountIn(onResultCalls, i) = sentResults[i]
                                /\ CountIn(onErrorCalls, i) = sentErrors[i]
                                /\ onMessageCalls[i] = sentMessages[i]
        /\ maxConcurrency > 0 => Cardinality(Active) <= maxConcurrency
        /\ resultsList = <<>> /\ errorsList = <<>>

\* C10 witness: RunWithCallbacks has returned after onMessage, onResult and
\* onError were each called.
C10_Witness ==
    /\ variant = "RunWithCallbacks" /\ callbacks = Callbacks /\ Returned
    /\ Len(onResultCalls) > 0 /\ Len(onErrorCalls) > 0
    /\ \E i \in Slots : onMessageCalls[i] > 0

\* ===================================================== document parser

\* ------------------------------------------------------------- strings

\* Optional values (Go pointers): Nil, or Some(v).
Nil == <<>>
Some(v) == <<v>>

\* strings.TrimSpace
RECURSIVE TrimLeft(_)
TrimLeft(t) == IF t # <<>> /\ Head(t) = " " THEN TrimLeft(Tail(t)) ELSE t
RECURSIVE TrimRight(_)
TrimRight(t) ==
    IF t # <<>> /\ t[Len(t)] = " " THEN TrimRight(SubSeq(t, 1, Len(t) - 1)) ELSE t
TrimSpace(t) == TrimRight(TrimLeft(t))

\* len(strings.Fields(t)): the maximal runs of letters other than white space.
Fields(t) ==
    Cardinality({k \in DOMAIN t : t[k] # " " /\ (k = 1 \/ t[k - 1] = " ")})

\* countWords
countWords(t) == IF t = <<>> THEN 0 ELSE Fields(t)

\* The byte of a letter of a tag name (ASCII).
Code(c) ==
    CASE c = "0" -> 48 [] c = "1" -> 49 [] c = "2" -> 50 [] c = "3" -> 51
      [] c = "4" -> 52 [] c = "5" -> 53 [] c = "6" -> 54 [] c = "7" -> 55
      [] c = "8" -> 56 [] c = "9" -> 57 [] c = "A" -> 65 [] c = "D" -> 68
      [] c = "E" -> 69 [] c = "H" -> 72 [] c = "I" -> 73 [] c = "P" -> 80
      [] c = "V" -> 86 [] c = "X" -> 88

\* strings.HasPrefix(name, "DIV") && len(name) == 4
IsDivName(name) == Len(name) = 4 /\ SubSeq(name, 1, 3) = <<"D", "I", "V">>

\* int(name[3] - '0'), a subtraction of bytes
DivLevelOf(name) == (Code(name[4]) - Code("0")) % 256

HEAD == <<"H", "E", "A", "D">>

\* ------------------------------------------------------ the token stream

\* decoder.Token() at position pos.  An "err" token is a tokenizer error: the
\* parser never moves past it, so every later call returns it again, as
\* xml.Decoder does.  Past the last token of a complete document: io.EOF.
Token(pos) ==
    IF pos <= Len(doc) THEN doc[pos]
    ELSE [kind |-> "eof", name |-> <<>>, n |-> <<>>, text |-> <<>>, anc |-> <<>>]

\* err != nil (io.EOF included) in the inner loops
Failed(tok) == tok.kind \in {"err", "eof"}

\* textContent.WriteString(text); textContent.WriteString(" ") for non-empty
\* trimmed character data
AddText(tc, chardata) ==
    LET text == TrimSpace(chardata)
    IN  IF text # <<>> THEN tc \o text \o <<" ">> ELSE tc

\* extractTextContent: returns the position reached and the builder.
RECURSIVE extractTextContent(_, _, _)
extractTextContent(pos, name, tc) ==
    LET tok == Token(pos)
    IN  IF Failed(tok) THEN [pos |-> pos, tc |-> tc]
        ELSE IF tok.kind = "end" /\ tok.name = name
        THEN [pos |-> pos + 1, tc |-> tc]
        ELSE IF tok.kind = "start"
        THEN LET r == extractTextContent(pos + 1, tok.name, tc)
             IN  extractTextContent(r.pos, name, r.tc)
        ELSE IF tok.kind = "text"
        THEN extractTextContent(pos + 1, name, AddText(tc, tok.text))
        ELSE extractTextContent(pos + 1, name, tc)

\* The loop that reads the HEAD content: returns the position reached and
\* headText.
RECURSIVE ReadHead(_, _)
ReadHead(pos, headText) ==
    LET tok == Token(pos)
    IN  IF Failed(tok) THEN [pos |-> pos, headText |-> headText]
        ELSE IF tok.kind = "end" /\ tok.name = HEAD
        THEN [pos |-> pos + 1, headText |-> headText]
        ELSE IF tok.kind = "text"
        THEN ReadHead(pos + 1, headText \o tok.text)
        ELSE ReadHead(pos + 1, headText)

\* path := parentPath; if path != "" { path += "/" }; path += identifier
BuildPath(parentPath, identifier) ==
    IF parentPath # <<>> THEN parentPath \o <<"/">> \o identifier ELSE identifier

RECURSIVE SumWordCount(_)
SumWordCount(q) == IF q = <<>> THEN 0 ELSE Head(q).WordCount + SumWordCount(Tail(q))

\* Mutant: the words of the children are not added.
SubtreeWordsOwnOnly(wordCount, childStructures) == wordCount

\* totalWords := wordCount; for child in childStructures: += child.WordCount
SubtreeWords(wordCount, childStructures) ==
    wordCount + SumWordCount(childStructures)

\* Mutant: parseDivElement is given a reference to the enclosing element.
ParentIdOfEnclosing(up) == IF up = <<>> THEN Nil ELSE Some(up[Len(up)])

\* The parentId argument of parseDivElement: nil at both call sites.
ParentIdArgument(up) == Nil

\* The CfrStructure built at the end of parseDivElement.  Src (position of the
\* element's start token), Up (Src of the enclosing parseDivElement calls) and
\* Cum (the word count parseDivElement returned with it) record the call.
NewStructure(src, up, divLevel, identifier, path, heading, textContent, children) ==
    LET text == TrimSpace(textContent)
        wordCount == countWords(text)
    IN  [InternalId |-> 0,
         DivLevel |-> divLevel,
         Identifier |-> identifier,
         Heading |-> heading,
         TextContent |-> IF text # <<>> THEN Some(text) ELSE Nil,
         WordCount |-> wordCount,
         ParentId |-> ParentIdArgument(up),
         Path |-> path,
         Src |-> src,
         Up |-> up,
         Cum |-> SubtreeWords(wordCount, children)]

\* parseDivElement, for the start token at position src, and the loop over
\* its content (DivLoop: from position pos, with heading, textContent and
\* childStructures as they are).  Both return the position reached and the
\* structures: the element's own first, then childStructures.
RECURSIVE parseDivElement(_, _, _, _)
RECURSIVE DivLoop(_, _, _, _, _, _, _, _)
DivLoop(pos, src, up, divLevel, path, heading, tc, children) ==
    LET tok == Token(pos)
        start == doc[src]
        finish(at) ==
            [pos |-> at,
             structures |-> <<NewStructure(src, up, divLevel, start.n, path,
                                           heading, tc, children)>> \o children]
    IN  IF Failed(tok) THEN finish(pos)
        ELSE IF tok.kind = "end" /\ tok.name = start.name THEN finish(pos + 1)
        ELSE IF tok.kind = "start" /\ tok.name = HEAD
        THEN LET h == ReadHead(pos + 1, <<>>)
             IN  DivLoop(h.pos, src, up, divLevel, path,
                         Some(TrimSpace(h.headText)), tc, children)
        ELSE IF tok.kind = "start" /\ IsDivName(tok.name)
        THEN LET c == parseDivElement(pos, Append(up, src),
                                      DivLevelOf(tok.name), path)
             IN  DivLoop(c.pos, src, up, divLevel, path, heading, tc,
                         children \o c.structures)
        ELSE IF tok.kind = "start"
        THEN LET r == extractTextContent(pos + 1, tok.name, tc)
             IN  DivLoop(r.pos, src, up, divLevel, path, heading, r.tc, children)
        ELSE IF tok.kind = "text"
        THEN DivLoop(pos + 1, src, up, divLevel, path, heading,
                     AddText(tc, tok.text), children)
        ELSE DivLoop(pos + 1, src, up, divLevel, path, heading, tc, children)

parseDivElement(src, up, divLevel, parentPath) ==
    DivLoop(src + 1, src, up, divLevel, BuildPath(parentPath, doc[src].n),
            Nil, <<>>, <<>>)

\* Mutant: the loop of Parse stops at any error as it does at io.EOF.
AtEOFOrError(tok) == tok.kind \in {"eof", "err"}

\* if err == io.EOF { break } in Parse
AtEOF(tok) == tok.kind = "eof"

\* The loop of Parse from position pos, with structures and totalWords as
\* they are.
RECURSIVE ParseLoop(_, _, _)
ParseLoop(pos, structures, totalWords) ==
    LET tok == Token(pos)
    IN  IF AtEOF(tok)
        THEN [ok |-> TRUE, Structures |-> structures, TotalWords |-> totalWords]
        ELSE IF tok.kind = "err" THEN NoResult
        ELSE IF tok.kind = "start" /\ IsDivName(tok.name)
        THEN LET d == parseDivElement(pos, <<>>, DivLevelOf(tok.name), <<>>)
             IN  ParseLoop(d.pos, structures \o d.structures,
                           totalWords + d.structures[1].Cum)
        ELSE ParseLoop(pos + 1, structures, totalWords)

\* CfrParser.Parse(xmlContent), xmlContent being the document doc.
Parse == ParseLoop(1, <<>>, 0)

\* ------------------------------------------- processTitle: linkage, insert

\* getParentPath: the path before its last "/", "" when it has none.
getParentPath(path) ==
    LET slashes == {i \in DOMAIN path : path[i] = "/"}
    IN  IF slashes = {} THEN <<>>
        ELSE SubSeq(path, 1, (CHOOSE i \in slashes : \A k \in slashes : k <= i) - 1)

\* pathMap after the first pass: for each path, the last structure having it
\* (its index in the list stands for the pointer).
PathMap(S) ==
    [p \in {S[i].Path : i \in DOMAIN S} |->
        CHOOSE i \in DOMAIN S :
            S[i].Path = p /\ \A k \in DOMAIN S : S[k].Path = p => k <= i]

\* The second pass.  ParentId = &parent.InternalId is a pointer into the
\* parent structure: Some(index of that structure).
Link(S) ==
    [i \in DOMAIN S |->
        LET parentPath == getParentPath(S[i].Path)
        IN  IF parentPath # <<>> /\ parentPath \in DOMAIN PathMap(S)
            THEN [S[i] EXCEPT !.ParentId = Some(PathMap(S)[parentPath])]
            ELSE S[i]]

\* The parent_id and path BatchInsert passes to the INSERT for each structure:
\* structure.ParentId is dereferenced when the statement is executed.
InsertArgs(S) ==
    [i \in DOMAIN S |->
        [parent_id |-> IF S[i].ParentId = Nil THEN Nil
                       ELSE Some(S[S[i].ParentId[1]].InternalId),
         path |-> S[i].Path]]

\* ---------------------------------------------------------- the documents

\* The start tags a document is written with: tag name and N attribute.
StartChoices ==
    { [name |-> <<"D", "I", "V", "1">>, n |-> <<"1">>],
      [name |-> <<"D", "I", "V", "1">>, n |-> <<>>],
      [name |-> <<"D", "I", "V", "2">>, n |-> <<"A">>],
      [name |-> <<"D", "I", "V", "X">>, n |-> <<"1">>],
      [name |-> HEAD, n |-> <<>>],
      [name |-> <<"P">>, n |-> <<>>] }

\* A hierarchy element as the specification describes it: DIV and a digit 1-9.
IsHierarchyName(name) ==
    IsDivName(name) /\ name[4] \in {"1", "2", "3", "4", "5", "6", "7", "8", "9"}

\* The hierarchy elements among the elements at positions anc.
HierarchyIn(anc) == SelectSeq(anc, LAMBDA p : IsHierarchyName(doc[p].name))

\* Character data written inside the elements at positions anc is heading
\* text when its parent is a HEAD child of a hierarchy element.
IsHeadText(anc) ==
    /\ Len(anc) >= 2
    /\ doc[anc[Len(anc)]].name = HEAD
    /\ IsHierarchyName(doc[anc[Len(anc) - 1]].name)

\* The letter the words of body text are written with, by the number of
\* hierarchy elements around the text; heading text is written with "h".
DepthLetter(d) == <<"a", "b", "c", "d", "e", "f", "g", "i", "j", "k">>[d + 1]
WordLetter(anc) ==
    IF IsHeadText(anc) THEN "h" ELSE DepthLetter(Len(HierarchyIn(anc)))

\* The character data a document is written with: white space only, or two
\* words after leading white space.
TextShapes == {"blank", "words"}
TextOf(shape, anc) ==
    IF shape = "blank" THEN <<" ">>
    ELSE <<" ", WordLetter(anc), " ", WordLetter(anc)>>

LastKind == IF doc = <<>> THEN "none" ELSE doc[Len(doc)].kind

\* The document can still be extended by k tokens and then be completed
\* within MaxTokens tokens.
Room(k) ==
    /\ ppc = "write"
    /\ second = NotCalled
    /\ LastKind # "err"
    /\ Len(doc) + k + Len(open) <= MaxTokens

\* The document is complete, or the tokenizer has failed in it.
DocumentEnded == IF open = <<>> THEN TRUE ELSE LastKind = "err"

runnerVars ==
    <<variant, callbacks, maxConcurrency, items, pc, next, throttle, workersWg,
      messagesWG, closed, wpc, invoked, cst, cval, sentMessages, sentResults,
      sentErrors, logged, resultsList, errorsList, onMessageCalls,
      onResultCalls, onErrorCalls, runResult>>

EmitStart(c) ==
    /\ Room(2)
    /\ doc' = Append(doc, [kind |-> "start", name |-> c.name, n |-> c.n,
                           text |-> <<>>, anc |-> open])
    /\ open' = Append(open, Len(doc) + 1)
    /\ UNCHANGED <<ppc, parseResult, linked, rows, second, runnerVars,
                   batchVars, storeVars>>

EmitEnd ==
    /\ Room(0)
    /\ open # <<>>
    /\ doc' = Append(doc, [kind |-> "end", name |-> doc[open[Len(open)]].name,
                           n |-> <<>>, text |-> <<>>, anc |-> open])
    /\ open' = SubSeq(open, 1, Len(open) - 1)
    /\ UNCHANGED <<ppc, parseResult, linked, rows, second, runnerVars,
                   batchVars, storeVars>>

EmitText(shape) ==
    /\ Room(1)
    /\ LastKind # "text"
    /\ doc' = Append(doc, [kind |-> "text", name |-> <<>>, n |-> <<>>,
                           text |-> TextOf(shape, open), anc |-> open])
    /\ UNCHANGED <<open, ppc, parseResult, linked, rows, second, runnerVars,
                   batchVars, storeVars>>

\* The document is malformed or truncated at this point: the tokenizer fails.
EmitError ==
    /\ Room(0)
    /\ doc' = Append(doc, [kind |-> "err", name |-> <<>>, n |-> <<>>,
                           text |-> <<>>, anc |-> open])
    /\ UNCHANGED <<open, ppc, parseResult, linked, rows, second, runnerVars,
                   batchVars, storeVars>>

\* processTitle on the document: Parse, and for a parsed list that is not
\* empty, the two linkage passes and BatchInsert.
ProcessTitle ==
    /\ ppc = "write"
    /\ DocumentEnded
    /\ parseResult' = Parse
    /\ linked' = IF parseResult'.ok THEN Link(parseResult'.Structures) ELSE <<>>
    /\ rows' = InsertArgs(linked')
    /\ ppc' = "processed"
    /\ UNCHANGED <<doc, open, second, runnerVars, batchVars, storeVars>>

\* Mutant: the structures slice is kept between calls.
KeptStructures(previous) == previous

\* var structures []*data.CfrStructure: every call of Parse starts with its
\* own empty slice (and its own decoder at the start of xmlContent),
\* whatever an earlier call left.
FreshStructures(previous) == <<>>

\* A call of Parse on xmlContent made when another call has left previous.
ParseCall(previous) == ParseLoop(1, FreshStructures(previous), 0)

\* Another worker, or the same one again, calls Parse on the same
\* xmlContent, before or after processTitle does.
ParseAgain ==
    /\ ppc \in {"write", "processed"}
    /\ DocumentEnded
    /\ second = NotCalled
    /\ second' = [called |-> TRUE,
                  result |-> ParseCall(parseResult.Structures)]
    /\ UNCHANGED <<parserVars, runnerVars, batchVars, storeVars>>

ParseInit ==
    /\ variant = "Run" /\ callbacks = {} /\ maxConcurrency = 0 /\ items = 0
    /\ pc = "entry" /\ next = 1 /\ throttle = 0
    /\ workersWg = 0 /\ messagesWG = 0 /\ closed = FALSE
    /\ wpc = [i \in Slots |-> "idle"]
    /\ invoked = Zero
    /\ cst = [s \in Streams |-> "off"]
    /\ cval = [s \in Streams |-> 0]
    /\ sentMessages = Zero /\ sentResults = Zero /\ sentErrors = Zero
    /\ logged = Zero
    /\ resultsList = <<>> /\ errorsList = <<>>
    /\ onMessageCalls = Zero /\ onResultCalls = <<>> /\ onErrorCalls = <<>>
    /\ runResult = [Results |-> <<>>, Errors |-> <<>>]
    /\ doc = <<>> /\ open = <<>> /\ ppc = "write"
    /\ parseResult = NoResult /\ linked = <<>> /\ rows = <<>>
    /\ second = NotCalled
    /\ BatchOff
    /\ StoreOff

ParseNext ==
    \/ \E c \in StartChoices : EmitStart(c)
    \/ EmitEnd
    \/ \E shape \in TextShapes : EmitText(shape)
    \/ EmitError
    \/ ProcessTitle
    \/ ParseAgain

ParseSpec == ParseInit /\ [][ParseNext]_vars

\* The parse was accepted.
Accepted == ppc = "processed" /\ parseResult.ok
Nodes == parseResult.Structures

Range(q) == {q[i] : i \in DOMAIN q}

\* The nodes of the elements written inside the element of node s.
DescendantsOf(s) == SelectSeq(Nodes, LAMBDA t : s.Src \in Range(doc[t.Src].anc))

\* C11: for an accepted document TotalWords is the sum of WordCount over all
\* returned nodes, and the cumulative count returned for each node's subtree
\* is its own WordCount plus the WordCounts of all its descendants, at every
\* depth.
C11_WordTotals ==
    Accepted =>
        /\ parseResult.TotalWords = SumWordCount(Nodes)
        /\ \A i \in DOMAIN Nodes :
               Nodes[i].Cum =
                   Nodes[i].WordCount + SumWordCount(DescendantsOf(Nodes[i]))

\* An accepted document with a node that has words and lies two levels below
\* another node.
C11_Witness ==
    /\ Accepted
    /\ \E i, j, k \in DOMAIN Nodes :
           /\ Nodes[i].Src \in Range(doc[Nodes[j].Src].anc)
           /\ Nodes[j].Src \in Range(doc[Nodes[k].Src].anc)
           /\ Nodes[k].WordCount > 0
           /\ Nodes[i].Cum > Nodes[i].WordCount

\* i1/i2/.../ik: the identifiers ids joined with the separator "/".
RECURSIVE JoinWithSlash(_)
JoinWithSlash(ids) ==
    IF Len(ids) = 1 THEN ids[1]
    ELSE ids[1] \o <<"/">> \o JoinWithSlash(Tail(ids))

\* The identifiers of the elements around node s that Parse descended
\* through, outermost first, and then its own.
IdentifierChain(s) ==
    [k \in 1..Len(s.Up) |-> doc[s.Up[k]].n] \o <<doc[s.Src].n>>

\* C12: the Path of every node is the identifiers of its enclosing hierarchy
\* elements, outermost first, and its own identifier, joined with "/"; this
\* for every identifier, the empty one included.
C12_PathJoinsIdentifiers ==
    Accepted =>
        \A i \in DOMAIN Nodes :
            Nodes[i].Path = JoinWithSlash(IdentifierChain(Nodes[i]))

\* C13: after the linkage pass a node has a ParentId if and only if another
\* node of the list has the node's Path without its last "/"-delimited
\* segment as its Path.
C13_ParentIffParentPathPresent ==
    Accepted =>
        \A i \in DOMAIN linked :
            linked[i].ParentId # Nil <=>
                \E j \in DOMAIN linked :
                    j # i /\ linked[j].Path = getParentPath(linked[i].Path)

\* C14: when the list is persisted, two linked nodes whose parent references
\* point to different nodes have different parent reference values.
C14_ParentReferenceDistinguishes ==
    Accepted =>
        \A i, j \in DOMAIN rows :
            /\ linked[i].ParentId # Nil
            /\ linked[j].ParentId # Nil
            /\ linked[i].ParentId # linked[j].ParentId
            => rows[i].parent_id # rows[j].parent_id

\* C15: Parse on a malformed or truncated document returns an error and no
\* ParseResult, wherever the tokenizer fails; nothing is linked or inserted.
C15_ErrorAbortsParse ==
    ppc = "processed" /\ LastKind = "err" =>
        parseResult = NoResult /\ linked = <<>> /\ rows = <<>>

\* A processed document whose tokenizer error lies inside a HEAD element of
\* a hierarchy element nested in another one.
C15_Witness ==
    /\ ppc = "processed"
    /\ LastKind = "err"
    /\ LET anc == doc[Len(doc)].anc
       IN  /\ Len(anc) >= 3
           /\ IsHierarchyName(doc[anc[1]].name)
           /\ IsHierarchyName(doc[anc[2]].name)
           /\ doc[anc[Len(anc)]].name = HEAD

\* The positions of the start tags of the hierarchy elements, in document
\* order.
HierarchyStarts ==
    SelectSeq([p \in DOMAIN doc |-> p],
              LAMBDA p : doc[p].kind = "start" /\ IsHierarchyName(doc[p].name))

\* C16: Parse returns exactly one node per hierarchy element, in pre-order,
\* that is in the document order of the elements' start tags.
C16_PreOrderOnePerElement ==
    Accepted => [i \in DOMAIN Nodes |-> Nodes[i].Src] = HierarchyStarts

\* C17: no two distinct nodes of the returned list have the same Path.
C17_PathsDistinct ==
    Accepted =>
        \A i, j \in DOMAIN Nodes : i # j => Nodes[i].Path # Nodes[j].Path

\* The letters of the body text of node s.
Letters(s) == IF s.TextContent = Nil THEN {} ELSE Range(s.TextContent[1])

\* The letters of body text written inside more than d hierarchy elements.
DeeperLetters(d) == {DepthLetter(k) : k \in (d + 1)..9}

\* C18: every hierarchy element inside a hierarchy element, also when wrapped
\* in other elements, has a node of its own whose Path is the Path of the
\* nearest enclosing hierarchy element's node, "/" and its identifier, and
\* its text is not part of that node's body text.
C18_NestedElementsAreChildren ==
    Accepted =>
        \A p \in Range(HierarchyStarts) :
            LET around == HierarchyIn(doc[p].anc)
            IN  around # <<>> =>
                    \E i \in DOMAIN Nodes :
                        /\ Nodes[i].Src = p
                        /\ \A j \in DOMAIN Nodes :
                               Nodes[j].Src = around[Len(around)] =>
                                   /\ Nodes[i].Path =
                                          Nodes[j].Path \o <<"/">> \o doc[p].n
                                   /\ Letters(Nodes[j]) \cap
                                          DeeperLetters(Len(around)) = {}

\* C19: every node comes from an element named DIV and a digit 1-9, and its
\* DivLevel is that digit.
C19_OnlyDigitLevels ==
    Accepted =>
        \A i \in DOMAIN Nodes :
            LET name == doc[Nodes[i].Src].name
            IN  /\ IsHierarchyName(name)
                /\ Nodes[i].DivLevel \in 1..9
                /\ Nodes[i].DivLevel = Code(name[4]) - Code("0")

\* The words of t that are not heading text.
BodyWords(t) == countWords(SelectSeq(t, LAMBDA c : c # "h"))

\* C20: the text of a HEAD child of a hierarchy element is no part of any
\* node's TextContent and is not counted in its WordCount.
C20_HeadingTextOnlyInHeading ==
    Accepted =>
        \A i \in DOMAIN Nodes :
            /\ "h" \notin Letters(Nodes[i])
            /\ Nodes[i].TextContent # Nil =>
                   Nodes[i].WordCount = BodyWords(Nodes[i].TextContent[1])

\* The tokens written inside the element that starts at position p.
Inside(p) == {k \in DOMAIN doc : p \in Range(doc[k].anc)}

\* The element at p has no hierarchy element inside it and no body text
\* other than white space.
EmptyLeaf(p) ==
    \A k \in Inside(p) :
        /\ ~(doc[k].kind = "start" /\ IsHierarchyName(doc[k].name))
        /\ (doc[k].kind = "text" /\ ~IsHeadText(doc[k].anc))
               => TrimSpace(doc[k].text) = <<>>

\* C21: a hierarchy element without hierarchy children and without body text,
\* or with white space only, produces exactly one node, whose TextContent is
\* nil and whose WordCount is 0.
C21_EmptyLeafHasNoText ==
    Accepted =>
        \A p \in Range(HierarchyStarts) :
            EmptyLeaf(p) =>
                /\ Cardinality({i \in DOMAIN Nodes : Nodes[i].Src = p}) = 1
                /\ \A i \in DOMAIN Nodes :
                       Nodes[i].Src = p =>
                           Nodes[i].TextContent = Nil /\ Nodes[i].WordCount = 0

\* C22: no node has a DivLevel smaller than the node of the hierarchy element
\* directly around it.
C22_LevelsNonDecreasing ==
    Accepted =>
        \A i, j \in DOMAIN Nodes :
            (Nodes[i].Up # <<>> /\ Nodes[j].Src = Nodes[i].Up[Len(Nodes[i].Up)])
                => Nodes[j].DivLevel <= Nodes[i].DivLevel

\* C25: every node Parse returns, top-level or nested, has a nil ParentId.
C25_ParseLeavesParentIdNil ==
    Accepted => \A i \in DOMAIN Nodes : Nodes[i].ParentId = Nil

\* An accepted document with a nested node that Parse returned without a
\* ParentId and that the linkage pass then gave one.
C25_Witness ==
    /\ Accepted
    /\ \E i \in DOMAIN Nodes :
           /\ Nodes[i].Up # <<>>
           /\ Nodes[i].ParentId = Nil
           /\ linked[i].ParentId # Nil

\* The goroutines that hold a throttle slot: started by the dispatch loop and
\* not yet past the deferred receive from the throttle channel.
Holders == {i \in Slots : wpc[i] \in {"ready", "run", "returned"} \cup Streams}

\* C26: with maxConcurrency = C > 0 every worker goroutine holds exactly one
\* permit from before it starts until it has returned, whatever it reported,
\* at most C permits are held, and none is held when the run has returned.
C26_PermitPerWorker ==
    maxConcurrency > 0 =>
        /\ throttle = Cardinality(Holders)
        /\ throttle <= maxConcurrency
        /\ Returned => throttle = 0

\* A throttled run has returned after one worker reported a result and
\* another one an error.
C26_Witness ==
    /\ maxConcurrency > 0
    /\ Returned
    /\ throttle = 0
    /\ \E i, j \in 1..items : sentResults[i] = 1 /\ sentErrors[j] = 1

\* The values received on stream s whose handling has not finished.
InHand(s) == IF cst[s] = "proc" THEN 1 ELSE 0

\* In every state of RunWithCallbacks with all callbacks given, each callback
\* has been called for every value sent on its stream but at most the one
\* its collector is handling, and for all of them once the run has returned.
CallbacksInStep ==
    (variant = "RunWithCallbacks" /\ callbacks = Callbacks) =>
        /\ Total(sentMessages) = Total(onMessageCalls) + InHand("messages")
        /\ Total(sentResults) = Len(onResultCalls) + InHand("results")
        /\ Total(sentErrors) = Len(onErrorCalls) + InHand("errors")
        /\ Returned => \A s \in Streams : InHand(s) = 0

\* C30: in RunWithCallbacks a send on a stream completes only after the
\* callback for the previous value of that stream has finished, so calls of
\* one callback never overlap, and no callback is called after the return.
C30_CallbacksSerial ==
    /\ []CallbacksInStep
    /\ [][Returned =>
              UNCHANGED <<onMessageCalls, onResultCalls, onErrorCalls>>]_vars

\* The results collector is handling one worker's result while another
\* worker is blocked in its send on the results channel.
C30_Witness ==
    /\ variant = "RunWithCallbacks" /\ callbacks = Callbacks
    /\ cst["results"] = "proc"
    /\ \E i \in Slots : wpc[i] = "results"

Drivers ==
    {"ProcessAllTitles", "ProcessAgencyMetrics", "ProcessSubAgencyMetrics",
     "ImportHistoricalTitles"}

\* RunnerConfig.MaxConcurrency each of them passes to NewRunner.
DriverConcurrency(d) ==
    IF d \in {"ProcessAllTitles", "ImportHistoricalTitles"} THEN 5 ELSE 3

\* The statements of the worker function each of them passes to Run, on the
\* path where nothing fails: a send on a stream, a call that may return an
\* error ("call"), or the test of subAgency.Parent ("check").
WorkerProgram(d) ==
    CASE d = "ProcessAllTitles" ->
             <<"messages", "call", "messages", "results">>
      [] d = "ProcessAgencyMetrics" ->
             <<"messages", "call", "call", "call", "messages", "results">>
      [] d = "ProcessSubAgencyMetrics" ->
             <<"check", "messages", "call", "call", "call", "messages",
               "results">>
      [] d = "ImportHistoricalTitles" ->
             <<"messages", "call", "call", "messages", "call", "messages",
               "results">>

\* Mutant: the failure branches send the message and return.
FailureBranchSilent(statement) == <<"messages">>

\* What the worker runs when a statement has failed: a message and the
\* error, then return; for a sub-agency without parent the error alone.
FailureBranch(statement) ==
    IF statement = "check" THEN <<"errors">> ELSE <<"messages", "errors">>

\* Mutant: the batch function returns an error when an item failed.
ReturnErrorIfAnyFailed == IF Len(runResult.Errors) > 0 THEN "error" ELSE "nil"

\* return nil, after the results have been logged
ReturnAfterRun == "nil"

\* The batch function gets its list of items (FindAll, getFilteredAgencies,
\* getAllFilesForDate): on an error it returns it; otherwise it makes the
\* runner and calls Run with the list.
FetchItems ==
    /\ pc = "fetch"
    /\ \/ /\ pc' = "failed"
          /\ driverRet' = "error"
          /\ UNCHANGED <<items, todo>>
       \/ /\ \E n \in 0..MaxItems :
                 /\ items' = n
                 /\ todo' = [i \in Slots |->
                                IF i <= n THEN WorkerProgram(driver) ELSE <<>>]
          /\ pc' = "entry"
          /\ UNCHANGED driverRet
    /\ UNCHANGED <<variant, callbacks, maxConcurrency, parserVars, second,
                   driver, failed, storeVars, next, throttle, workersWg,
                   messagesWG, closed, runResult, workerVars, cst, cval,
                   sinkVars>>

\* The worker reaches a send statement and blocks in it.
WorkerReachSend(i) ==
    /\ driver # "none"
    /\ wpc[i] = "run"
    /\ todo[i] # <<>>
    /\ Head(todo[i]) \in Streams
    /\ wpc' = [wpc EXCEPT ![i] = Head(todo[i])]
    /\ todo' = [todo EXCEPT ![i] = Tail(@)]
    /\ UNCHANGED <<variant, callbacks, maxConcurrency, items, parserVars,
                   second, driver, driverRet, failed, storeVars, mainVars,
                   invoked, sentMessages, sentResults, sentErrors, cst, cval,
                   sinkVars>>

\* The worker makes a call that returns an error or not (processTitle,
\* CountWordsAndSections, json.Marshal, Insert, FindByNumber, getTitleFile,
\* downloadTitleVersion), or tests subAgency.Parent == nil.
WorkerCall(i) ==
    /\ driver # "none"
    /\ wpc[i] = "run"
    /\ todo[i] # <<>>
    /\ Head(todo[i]) \in {"call", "check"}
    /\ \/ /\ todo' = [todo EXCEPT ![i] = Tail(@)]
          /\ UNCHANGED failed
       \/ /\ todo' = [todo EXCEPT ![i] = FailureBranch(Head(@))]
          /\ failed' = [failed EXCEPT ![i] = TRUE]
    /\ UNCHANGED <<variant, callbacks, maxConcurrency, items, parserVars,
                   second, driver, driverRet, storeVars, mainVars, workerVars,
                   cst, cval, sinkVars>>

\* The worker function returns.
WorkerFinish(i) ==
    /\ driver # "none"
    /\ wpc[i] = "run"
    /\ todo[i] = <<>>
    /\ wpc' = [wpc EXCEPT ![i] = "returned"]
    /\ UNCHANGED <<configVars, mainVars, invoked, sentMessages, sentResults,
                   sentErrors, cst, cval, sinkVars>>

\* Run has returned: the batch function logs the lists and returns.
DriverReturn ==
    /\ driver # "none"
    /\ pc = "done"
    /\ driverRet = "none"
    /\ driverRet' = ReturnAfterRun
    /\ UNCHANGED <<variant, callbacks, maxConcurrency, items, parserVars,
                   second, driver, todo, failed, storeVars, mainVars,
                   workerVars, cst, cval, sinkVars>>

BatchInit ==
    /\ variant = "Run" /\ callbacks = {}
    /\ driver \in Drivers
    /\ maxConcurrency = NewRunner(DriverConcurrency(driver))
    /\ items = 0
    /\ pc = "fetch" /\ next = 1 /\ throttle = 0
    /\ workersWg = 0 /\ messagesWG = 0 /\ closed = FALSE
    /\ wpc = [i \in Slots |-> "idle"]
    /\ invoked = Zero
    /\ cst = [s \in Streams |-> "off"]
    /\ cval = [s \in Streams |-> 0]
    /\ sentMessages = Zero /\ sentResults = Zero /\ sentErrors = Zero
    /\ logged = Zero
    /\ resultsList = <<>> /\ errorsList = <<>>
    /\ onMessageCalls = Zero /\ onResultCalls = <<>> /\ onErrorCalls = <<>>
    /\ runResult = [Results |-> <<>>, Errors |-> <<>>]
    /\ ParserOff
    /\ second = NotCalled
    /\ driverRet = "none"
    /\ todo = [i \in Slots |-> <<>>]
    /\ failed = [i \in Slots |-> FALSE]
    /\ StoreOff

BatchNext ==
    \/ FetchItems
    \/ ReturnEmpty
    \/ StartCollectors
    \/ Dispatch
    \/ WaitWorkers
    \/ CloseChannels
    \/ Return
    \/ DriverReturn
    \/ \E i \in Slots : CallWorker(i)
    \/ \E i \in Slots : WorkerReachSend(i)
    \/ \E i \in Slots : WorkerCall(i)
    \/ \E i \in Slots, s \in Streams : WorkerSend(i, s)
    \/ \E i \in Slots : WorkerFinish(i)
    \/ \E i \in Slots : ReleaseThrottle(i)
    \/ \E i \in Slots : WorkerDone(i)
    \/ CollectMessage
    \/ CollectResult
    \/ CollectError
    \/ \E s \in Streams : CollectorExit(s)

BatchSpec == BatchInit /\ [][BatchNext]_vars

\* C24: once the item list has been obtained, the batch function returns nil
\* whatever succeeded or failed per item, and the error list of the run holds
\* every item that failed (the result list every other item).
C24_BatchReturnsNil ==
    (driverRet # "none" /\ pc = "done") =>
        /\ driverRet = "nil"
        /\ \A i \in 1..items :
               /\ CountIn(runResult.Errors, i) = IF failed[i] THEN 1 ELSE 0
               /\ CountIn(runResult.Results, i) = IF failed[i] THEN 0 ELSE 1

\* A batch function has returned after one item failed and another did not.
C24_Witness ==
    /\ driverRet = "nil"
    /\ \E i, j \in 1..items : failed[i] /\ ~failed[j]
    /\ Len(runResult.Errors) = 1
    /\ Len(runResult.Results) = 1

\* The outcomes (results and errors) the worker of item i has sent.
Outcomes(i) == sentResults[i] + sentErrors[i]

\* C27: every worker function the batch functions pass to Run sends messages
\* and then exactly one outcome, a result or an error, on every path: never
\* two, none only while it still runs, and nothing after the outcome.
C27_WorkerOneOutcome ==
    \A i \in Slots :
        /\ Outcomes(i) <= 1
        /\ wpc[i] \in {"returned", "released", "fin"} => Outcomes(i) = 1
        /\ wpc[i] \in Streams => Outcomes(i) = 0
        /\ Outcomes(i) = 1 => todo[i] = <<>>

\* One worker has returned after two messages and an error, another one
\* after messages and a result.
C27_Witness ==
    \E i, j \in Slots :
        /\ wpc[i] = "fin" /\ sentErrors[i] = 1 /\ sentMessages[i] = 2
        /\ wpc[j] = "fin" /\ sentResults[j] = 1 /\ sentMessages[j] >= 2

\* ================================================ processTitle and the store

\* The writers of rows for the title: 0 is an earlier, completed run, 1 and 2
\* are the two invocations.  store[w] counts the copies of w's structure list
\* in cfr_structure (BatchInsert commits a whole list or nothing).
Writers == {0} \cup Invocations

otherThanStore == <<runnerVars, parserVars, second, batchVars>>

\* The errors processTitle returns, by the call that failed.
ProcessTitleErrors ==
    {"failed to get title content", "failed to parse XML",
     "failed to delete existing structures", "failed to insert structures"}

\* xmlContent, err := s.TitleDAO.GetContent(ctx, title.Name)
GetContent(p) ==
    /\ spc[p] = "content"
    /\ \E to \in {"parse", "failed to get title content"} :
           spc' = [spc EXCEPT ![p] = to]
    /\ UNCHANGED <<store, otherThanStore>>

\* parseResult, err := cfrParser.Parse(xmlContent): an error, a list with
\* structures, or an empty list.
ParseContent(p) ==
    /\ spc[p] = "parse"
    /\ \E to \in {"delete", "deleteOnly", "failed to parse XML"} :
           spc' = [spc EXCEPT ![p] = to]
    /\ UNCHANGED <<store, otherThanStore>>

\* err = s.CfrStructureDAO.DeleteByTitleId(ctx, title.InternalId): one DELETE
\* statement outside any transaction; for an empty list processTitle then
\* returns nil.
DeleteByTitleId(p) ==
    /\ spc[p] \in {"delete", "deleteOnly"}
    /\ \/ /\ store' = [w \in Writers |-> 0]
          /\ spc' = [spc EXCEPT ![p] = IF @ = "delete" THEN "insert" ELSE "ok"]
       \/ /\ spc' = [spc EXCEPT ![p] = "failed to delete existing structures"]
          /\ UNCHANGED store
    /\ UNCHANGED otherThanStore

\* The linkage passes, then err = s.CfrStructureDAO.BatchInsert(...): all rows
\* of the list in one transaction, committed or rolled back.
BatchInsert(p) ==
    /\ spc[p] = "insert"
    /\ \/ /\ store' = [store EXCEPT ![p] = @ + 1]
          /\ spc' = [spc EXCEPT ![p] = "ok"]
       \/ /\ spc' = [spc EXCEPT ![p] = "failed to insert structures"]
          /\ UNCHANGED store
    /\ UNCHANGED otherThanStore

\* The title has structures stored by an earlier run.
StoredBefore == [w \in Writers |-> IF w = 0 THEN 1 ELSE 0]

StoreInit ==
    /\ variant = "Run" /\ callbacks = {} /\ maxConcurrency = 0 /\ items = 0
    /\ pc = "entry" /\ next = 1 /\ throttle = 0
    /\ workersWg = 0 /\ messagesWG = 0 /\ closed = FALSE
    /\ wpc = [i \in Slots |-> "idle"]
    /\ invoked = Zero
    /\ cst = [s \in Streams |-> "off"]
    /\ cval = [s \in Streams |-> 0]
    /\ sentMessages = Zero /\ sentResults = Zero /\ sentErrors = Zero
    /\ logged = Zero
    /\ resultsList = <<>> /\ errorsList = <<>>
    /\ onMessageCalls = Zero /\ onResultCalls = <<>> /\ onErrorCalls = <<>>
    /\ runResult = [Results |-> <<>>, Errors |-> <<>>]
    /\ ParserOff
    /\ second = NotCalled
    /\ BatchOff
    /\ store = StoredBefore
    /\ spc \in {[p \in Invocations |-> IF p <= k THEN "content" ELSE "off"] :
                    k \in Invocations}

StoreNext ==
    \E p \in Invocations :
        \/ GetContent(p)
        \/ ParseContent(p)
        \/ DeleteByTitleId(p)
        \/ BatchInsert(p)

StoreSpec == StoreInit /\ [][StoreNext]_vars

\* C28: when the only processTitle invocation on a title returns an error,
\* the structures stored for the title before are unchanged.
C28_ErrorLeavesStore ==
    (spc[2] = "off" /\ spc[1] \in ProcessTitleErrors) => store = StoredBefore

RECURSIVE Copies(_)
Copies(W) ==
    IF W = {} THEN 0
    ELSE LET w == CHOOSE x \in W : TRUE IN store[w] + Copies(W \ {w})

\* C29: when two concurrent processTitle invocations on one title both have
\* succeeded, the store holds the structure list of a single parse at most
\* once, and nothing else.
C29_OneCopyAfterConcurrentRuns ==
    (\A p \in Invocations : spc[p] = "ok") => Copies(Writers) <= 1
====
